---------------------------- MODULE Spec2Model ----------------------------
(***************************************************************************)
(* A model of the immutable storage layer of mini-lsm: Block,              *)
(* BlockBuilder, BlockIterator, SsTable, SsTableBuilder, SsTableIterator   *)
(* and MergeIterator.  Byte vectors are sequences of integers 0..255,      *)
(* Rust's 0-based half-open slices d[a..b] are SubSeq(d, a+1, b), and an   *)
(* out-of-bounds index, an unwrap of None or a checked overflow is the     *)
(* outcome "panic".                                                        *)
(***************************************************************************)
EXTENDS Integers, Sequences, FiniteSets, TLC

VARIABLES
    overflow_checks,  \* build profile: TRUE = debug (overflow panics), FALSE = release (wraps)
    dom,              \* the input domain of the run, by name: "small" | "wide"
    \* ---- BlockBuilder / Block / BlockIterator ----
    bphase,           \* "off" | "building" | "built"
    builder,          \* the BlockBuilder
    added,            \* history: the entries the builder accepted, in order
    add_result,       \* history: what the last add returned ("none" | "true" | "false" | "panic")
    block,            \* the Block returned by build
    decoded,          \* Block::decode(block.encode()), once computed
    blk_iter,         \* the BlockIterator over block
    blk_op,           \* history: the last iterator call and where it started from
    \* ---- SsTableBuilder / SsTable / SsTableIterator ----
    tphase,           \* "off" | "building" | "table" | "panic"
    sst_builder,      \* the SsTableBuilder
    entries,          \* history: the entries added to the SsTableBuilder, in order
    file,             \* the bytes FileObject::create wrote
    table,            \* the SsTable in use (returned by build or by open)
    sst_iter,         \* the SsTableIterator
    sst_op,           \* history: the last iterator call, what it yielded so far
    find_op,          \* history: the last call to be table.find_block_idx(key), its result
    read_op,          \* history: the last call to be table.read_block(idx), its result
    \* ---- MergeIterator ----
    mphase,           \* "off" | "inputs" | "created" | "panic"
    inputs,           \* history: the input cursors as handed to create, by stream index + 1
    merge,            \* the MergeIterator
    merge_op,         \* history: the last call, the entries exposed so far
    \* ---- BlockMeta::encode_block_meta / decode_block_meta ----
    meta_phase,       \* "off" | "list" | "encoded" | "decoded"
    meta_list,        \* the BlockMeta list handed to encode_block_meta
    meta_buf,         \* the buffer encode_block_meta wrote into
    meta_decoded,     \* what decode_block_meta returned for meta_buf
    \* ---- SsTableIterators of several threads over one SsTable ----
    readers           \* per thread: its SsTableIterator and what its calls have shown

bvars == <<bphase, builder, added, add_result, block, decoded, blk_iter, blk_op>>
tvars == <<tphase, sst_builder, entries, file, table, sst_iter, sst_op, find_op, read_op>>
envvars == <<overflow_checks, dom>>
mvars == <<mphase, inputs, merge, merge_op>>
metavars == <<meta_phase, meta_list, meta_buf, meta_decoded>>
svars == <<readers>>
vars == <<envvars, bvars, tvars, mvars, metavars, svars>>

---------------------------------------------------------------------------
(* Bounds and input domains *)

MaxEntries == 3
MaxNexts == 5
MaxStreams == 3
MaxErrors == 1
MaxMetas == 2
MaxLiveStreams == 2

\* small entries and block target sizes that split them in every way;
\* seek targets: every key, one below all keys, one between two, one above all
SmallDomain ==
    [keys |-> {<<1>>, <<1, 2>>, <<2>>, <<3>>},
     vals |-> {<<>>, <<7, 7>>},
     sizes |-> {1, 16, 27},
     targets |-> {<<1>>, <<1, 2>>, <<2>>, <<3>>, <<0>>, <<2, 0>>, <<4>>},
     max_entries |-> MaxEntries]

\* entries at the limit of the format (a value of 2^16 - 1 bytes) in a block
\* whose target size lets a second entry follow the first
WideDomain ==
    [keys |-> {<<1>>, <<2>>},
     vals |-> {<<7>>, [i \in 1..65535 |-> 0]},
     sizes |-> {70000},
     targets |-> {<<1>>, <<2>>},
     max_entries |-> 2]

Domains(name) == IF name = "small" THEN SmallDomain ELSE WideDomain

\* the keys, values, block sizes and seek targets of the run
Dom == Domains(dom)

---------------------------------------------------------------------------
(* Integers, bytes and slices *)

U16 == 65536
SIZEOF_U16 == 2

Min(a, b) == IF a < b THEN a ELSE b

Last(s) == s[Len(s)]
Front(s) == SubSeq(s, 1, Len(s) - 1)

\* Rust's d[a..b]
Slice(d, a, b) == SubSeq(d, a + 1, b)

\* a byte vector is kept in the state as the sequence of its 256-byte pieces
\* (the last one shorter); Unpack(Pack(d)) = d
Pack(d) ==
    IF d = <<>> THEN <<>>
    ELSE [j \in 1..((Len(d) + 255) \div 256) |->
            SubSeq(d, (j - 1) * 256 + 1, Min(j * 256, Len(d)))]
\* the concatenation of the pieces p[lo], ..., p[hi]
RECURSIVE Concat(_, _, _)
Concat(p, lo, hi) ==
    IF lo = hi THEN p[lo]
    ELSE LET mid == (lo + hi) \div 2
         IN Concat(p, lo, mid) \o Concat(p, mid + 1, hi)
Unpack(p) == IF p = <<>> THEN <<>> ELSE Concat(p, 1, Len(p))

\* x.to_be_bytes() / put_u16(x) for a u16 x
PutU16(x) == <<x \div 256, x % 256>>
\* u16::from_be_bytes([d[i], d[i+1]])
GetU16(d, i) == d[i + 1] * 256 + d[i + 2]
\* x.to_be_bytes() / put_u32(x) for a u32 x; every u32 of a run of this model
\* is below 2^31, so the cast (x as u32) is the identity on it
PutU32(x) == <<x \div 16777216, (x \div 65536) % 256, (x \div 256) % 256, x % 256>>
GetU32(d, i) == d[i + 1] * 16777216 + d[i + 2] * 65536 + d[i + 3] * 256 + d[i + 4]

\* the order of keys: lexicographic over raw bytes (a < b)
KeyLess(a, b) ==
    \E i \in 1..Len(b) :
        /\ \A j \in 1..(i - 1) : IF j <= Len(a) THEN a[j] = b[j] ELSE FALSE
        /\ IF i > Len(a) THEN TRUE ELSE a[i] < b[i]
KeyGeq(a, b) == ~KeyLess(a, b)

---------------------------------------------------------------------------
(* Block: encode / decode *)

PanicBlock == [panic |-> TRUE, data |-> <<>>, offsets |-> <<>>]
NoBlock == [panic |-> FALSE, data |-> <<>>, offsets |-> <<>>]

\* the offsets as big-endian u16s, in order
OffsetsBytes(offsets) ==
    [i \in 1..(2 * Len(offsets)) |->
        IF i % 2 = 1 THEN offsets[(i + 1) \div 2] \div 256
                     ELSE offsets[i \div 2] % 256]

\* a mutation of Block_encode: the trailing count is left out
Block_encode_no_count(b) == b.data \o OffsetsBytes(b.offsets)

Block_encode(b) ==
    b.data \o OffsetsBytes(b.offsets) \o PutU16(Len(b.offsets) % U16)

Block_decode(bytes) ==
    IF Len(bytes) < SIZEOF_U16 THEN PanicBlock
    ELSE LET entry_offsets_len == GetU16(bytes, Len(bytes) - SIZEOF_U16)
             data_end == Len(bytes) - SIZEOF_U16 - entry_offsets_len * SIZEOF_U16
         IN IF data_end < 0 THEN PanicBlock
            ELSE [panic |-> FALSE,
                  data |-> Slice(bytes, 0, data_end),
                  offsets |-> [i \in 1..entry_offsets_len |->
                                   GetU16(bytes, data_end + (i - 1) * SIZEOF_U16)]]

---------------------------------------------------------------------------
(* BlockBuilder *)

BlockBuilder_new(block_size) ==
    [offsets |-> <<0>>, data |-> <<>>, block_size |-> block_size, first_key |-> <<>>]

EntryBytes(key, value) ==
    PutU16(Len(key) % U16) \o key \o PutU16(Len(value) % U16) \o value

\* a mutation of BlockBuilder_add: the size test is made on an empty builder too
BlockBuilder_add_always_sized(b, key, value) ==
    LET entry == EntryBytes(key, value)
        loc == Last(b.offsets) + (Len(entry) % U16)
    IN IF Len(b.data) + Len(b.offsets) * 2 + Len(key) + Len(value) >= b.block_size
       THEN [ret |-> "false", b |-> b]
       ELSE IF b.offsets = <<>> \/ (loc >= U16 /\ overflow_checks)
       THEN [ret |-> "panic", b |-> b]
       ELSE [ret |-> "true",
             b |-> [b EXCEPT !.first_key = IF b.data = <<>> THEN key ELSE @,
                             !.data = @ \o entry,
                             !.offsets = Append(@, loc % U16)]]

\* add(key, value): [ret |-> what it returns or "panic", b |-> the builder after]
BlockBuilder_add(b, key, value) ==
    LET entry == EntryBytes(key, value)
        loc == Last(b.offsets) + (Len(entry) % U16)
    IN IF b.data # <<>>
          /\ Len(b.data) + Len(b.offsets) * 2 + Len(key) + Len(value) >= b.block_size
       THEN [ret |-> "false", b |-> b]
       ELSE IF b.offsets = <<>> \/ (loc >= U16 /\ overflow_checks)
       THEN [ret |-> "panic", b |-> b]
       ELSE [ret |-> "true",
             b |-> [b EXCEPT !.first_key = IF b.data = <<>> THEN key ELSE @,
                             !.data = @ \o entry,
                             !.offsets = Append(@, loc % U16)]]

BlockBuilder_is_empty(b) == b.data = <<>>

\* build(): pops the end offset and pushes the number of offsets left
BlockBuilder_build(b) ==
    LET popped == Front(b.offsets)
    IN [panic |-> FALSE,
        data |-> b.data,
        offsets |-> Append(popped, Len(popped) % U16)]

---------------------------------------------------------------------------
(* BlockIterator *)

\* the key of the entry whose header starts at data[offset]
KeyAt(d, offset) ==
    IF offset + 2 > Len(d) THEN [panic |-> TRUE, key_len |-> 0, key |-> <<>>]
    ELSE LET key_len == GetU16(d, offset)
         IN IF offset + 2 + key_len > Len(d)
            THEN [panic |-> TRUE, key_len |-> 0, key |-> <<>>]
            ELSE [panic |-> FALSE, key_len |-> key_len,
                  key |-> Slice(d, offset + 2, offset + 2 + key_len)]

\* the value length read at data[pos], data[pos + 1]; -1 when that read panics
ValueLenAt(d, pos) == IF pos + 2 > Len(d) THEN -1 ELSE GetU16(d, pos)

BlockIterator_new(b) ==
    [panic |-> FALSE, block |-> b, key |-> <<>>, value_range |-> <<0, 0>>,
     idx |-> 0, first_key |-> <<>>]

PanicIter == [BlockIterator_new(NoBlock) EXCEPT !.panic = TRUE]

BlockIterator_is_valid(it) == it.key # <<>>

BlockIterator_key(it) == it.key

ValuePanic == <<-1>>

\* value(): the slice data[value_range.0 .. value_range.1]
BlockIterator_value(it) ==
    IF it.value_range[1] <= it.value_range[2] /\ it.value_range[2] <= Len(it.block.data)
    THEN Slice(it.block.data, it.value_range[1], it.value_range[2])
    ELSE ValuePanic

BlockIterator_seek_to_first(it) ==
    LET d == it.block.data
        k == KeyAt(d, 0)
        value_len == ValueLenAt(d, 2 + k.key_len)
    IN IF k.panic \/ value_len < 0 THEN PanicIter
       ELSE [it EXCEPT !.key = k.key,
                       !.value_range = <<2 + k.key_len + 2, 2 + k.key_len + 2 + value_len>>,
                       !.idx = 1,
                       !.first_key = k.key]

BlockIterator_create_and_seek_to_first(b) ==
    BlockIterator_seek_to_first(BlockIterator_new(b))

BlockIterator_next(it) ==
    LET offsets == it.block.offsets
        d == it.block.data
    IN IF Len(offsets) = 0 THEN PanicIter
       ELSE IF it.idx = Len(offsets) - 1 THEN [it EXCEPT !.key = <<>>]
       ELSE IF it.idx >= Len(offsets) THEN PanicIter
       ELSE LET offset == offsets[it.idx + 1]
                k == KeyAt(d, offset)
                value_len == ValueLenAt(d, offset + 2 + k.key_len)
            IN IF k.panic \/ value_len < 0 THEN PanicIter
               ELSE [it EXCEPT !.key = k.key,
                               !.value_range = <<offset + 2 + k.key_len + 2,
                                                 offset + 2 + k.key_len + 2 + value_len>>,
                               !.idx = it.idx + 1]

\* the assignments after the scan loop of seek_to_key
SeekFinish(it, final_idx, final_key, final_key_len, final_offset) ==
    LET final_value_len == ValueLenAt(it.block.data, final_offset + 2 + final_key_len)
    IN IF final_value_len < 0 THEN PanicIter
       ELSE [it EXCEPT !.key = final_key,
                       !.value_range = <<final_offset + 2 + final_key_len + 2,
                                         final_offset + 2 + final_key_len + 2 + final_value_len>>,
                       !.idx = final_idx]

\* a mutation of SeekMatches: > where the code has >=
SeekMatches_strict(iter_key, key) == KeyLess(key, iter_key)

\* the test that ends the scan loop of seek_to_key: iter_key >= key
SeekMatches(iter_key, key) == KeyGeq(iter_key, key)

\* the scan loop of seek_to_key from the (0-based) offset index i on
RECURSIVE SeekScan(_, _, _)
SeekScan(it, key, i) ==
    LET offsets == it.block.offsets
    IN IF i >= Len(offsets) THEN SeekFinish(it, 0, <<>>, 0, 0)
       ELSE IF i = Len(offsets) - 1 THEN [it EXCEPT !.key = <<>>]
       ELSE LET offset == offsets[i + 1]
                k == KeyAt(it.block.data, offset)
            IN IF k.panic THEN PanicIter
               ELSE IF SeekMatches(k.key, key) THEN SeekFinish(it, i, k.key, k.key_len, offset)
               ELSE SeekScan(it, key, i + 1)

BlockIterator_seek_to_key(it, key) == SeekScan(it, key, 0)

BlockIterator_create_and_seek_to_key(b, key) ==
    LET it == BlockIterator_create_and_seek_to_first(b)
    IN IF it.panic THEN it ELSE BlockIterator_seek_to_key(it, key)

---------------------------------------------------------------------------
(* BlockBuilder::first_key / last_key: called by SsTableBuilder, their      *)
(* bodies are not in the source files; modelled from the specification:    *)
(* "the keys of the first and most recently added entries"                 *)

BlockBuilder_first_key(b) == b.first_key

\* the key of the last entry header met walking data from position pos
RECURSIVE LastKeyFrom(_, _, _)
LastKeyFrom(d, pos, last) ==
    IF pos + 2 > Len(d) THEN last
    ELSE LET key_len == GetU16(d, pos)
             value_len == GetU16(d, pos + 2 + key_len)
         IN LastKeyFrom(d, pos + 2 + key_len + 2 + value_len,
                        Slice(d, pos + 2, pos + 2 + key_len))

BlockBuilder_last_key(b) == LastKeyFrom(b.data, 0, <<>>)

---------------------------------------------------------------------------
(* BlockMeta: encode_block_meta / decode_block_meta *)

BlockMeta(offset, first_key, last_key) ==
    [offset |-> offset, first_key |-> first_key, last_key |-> last_key]

\* a mutation of MetaSegment: last_key is written before first_key
MetaSegment_last_key_first(m) ==
    PutU32(m.offset)
        \o PutU16(Len(m.last_key) % U16) \o m.last_key
        \o PutU16(Len(m.first_key) % U16) \o m.first_key

\* the segment written for one BlockMeta
MetaSegment(m) ==
    PutU32(m.offset)
        \o PutU16(Len(m.first_key) % U16) \o m.first_key
        \o PutU16(Len(m.last_key) % U16) \o m.last_key

RECURSIVE BlockMeta_encode_block_meta(_, _)
BlockMeta_encode_block_meta(block_meta, buf) ==
    IF block_meta = <<>> THEN buf
    ELSE BlockMeta_encode_block_meta(Tail(block_meta), buf \o MetaSegment(Head(block_meta)))

\* the loop of decode_block_meta with pos bytes of buf consumed; a get_* past
\* the end of the buffer panics
RECURSIVE DecodeMetaFrom(_, _, _)
DecodeMetaFrom(buf, pos, block_meta) ==
    IF Len(buf) - pos <= 0 THEN [panic |-> FALSE, block_meta |-> block_meta]
    ELSE IF Len(buf) - pos < 4 + 2 THEN [panic |-> TRUE, block_meta |-> <<>>]
    ELSE LET offset == GetU32(buf, pos)
             first_key_len == GetU16(buf, pos + 4)
             p1 == pos + 4 + 2 + first_key_len
         IN IF p1 + 2 > Len(buf) THEN [panic |-> TRUE, block_meta |-> <<>>]
            ELSE LET last_key_len == GetU16(buf, p1)
                     p2 == p1 + 2 + last_key_len
                 IN IF p2 > Len(buf) THEN [panic |-> TRUE, block_meta |-> <<>>]
                    ELSE DecodeMetaFrom(buf, p2,
                             Append(block_meta,
                                    BlockMeta(offset,
                                              Slice(buf, pos + 4 + 2, p1),
                                              Slice(buf, p1 + 2, p2))))

BlockMeta_decode_block_meta(buf) == DecodeMetaFrom(buf, 0, <<>>)

NoMetaDecoded == [panic |-> FALSE, block_meta |-> <<>>]

SharedOff == readers = <<>>

MetaOff ==
    /\ meta_phase = "off"
    /\ meta_list = <<>>
    /\ meta_buf = <<>>
    /\ meta_decoded = NoMetaDecoded

---------------------------------------------------------------------------
(* SsTable *)

\* the block cache of an SsTable: None, or Some(cache) with the blocks the
\* cache holds, as a set of <<key, block>> pairs
NoCache == [some |-> FALSE, map |-> {}]
EmptyCache == [some |-> TRUE, map |-> {}]
BlockCache_keys(c) == {e[1] : e \in c.map}
BlockCache_get(c, key) == (CHOOSE e \in c.map : e[1] = key)[2]

\* block_cache.try_get_with(key, init): the block held under key, or else
\* what init returns
BlockCache_try_get_with(c, key, init) ==
    IF key \in BlockCache_keys(c)
    THEN [status |-> "ok", block |-> BlockCache_get(c, key)]
    ELSE init

\* the cache after try_get_with(key, init): a block init loaded is installed,
\* a failure is not
BlockCache_after_get(c, key, init) ==
    IF key \in BlockCache_keys(c) \/ init.status # "ok" THEN c
    ELSE [c EXCEPT !.map = @ \cup {<<key, init.block>>}]

\* the cache after it evicted what it held under key
BlockCache_evict(c, key) == [c EXCEPT !.map = {e \in @ : e[1] # key}]

NoTable ==
    [origin |-> "none", block_meta |-> <<>>, block_meta_offset |-> 0,
     id |-> 0, block_cache |-> NoCache,
     first_key |-> <<>>, last_key |-> <<>>, bloom |-> FALSE]

\* iter().min() / iter().max() over keys
MinKey(ks) == CHOOSE k \in ks : \A o \in ks : KeyGeq(o, k)
MaxKey(ks) == CHOOSE k \in ks : \A o \in ks : KeyGeq(k, o)

\* FileObject::read(offset, len): read_exact_at fails past the end of the file
FileObject_read(f, offset, len) ==
    IF offset + len > Len(f) THEN [status |-> "err", data |-> <<>>]
    ELSE [status |-> "ok", data |-> Slice(f, offset, offset + len)]

\* SsTable::open(id, block_cache, file)
SsTable_open(f) ==
    LET offset_size == 4
        size == Len(f)
    IN IF size < offset_size THEN [status |-> "panic", table |-> NoTable]
       ELSE LET block_meta == Slice(f, 0, size - offset_size)
                block_meta_offset == GetU32(f, size - offset_size)
            IN IF block_meta_offset > Len(block_meta)
               THEN [status |-> "panic", table |-> NoTable]
               ELSE LET buf == Slice(block_meta, block_meta_offset, Len(block_meta))
                        dec == BlockMeta_decode_block_meta(buf)
                        metas == dec.block_meta
                    IN IF dec.panic \/ metas = <<>>
                       THEN [status |-> "panic", table |-> NoTable]
                       ELSE [status |-> "ok",
                             table |->
                                [origin |-> "open",
                                 block_meta |-> metas,
                                 block_meta_offset |-> block_meta_offset,
                                 id |-> 0,
                                 block_cache |-> NoCache,
                                 first_key |-> MinKey({metas[i].first_key : i \in 1..Len(metas)}),
                                 last_key |-> MaxKey({metas[i].last_key : i \in 1..Len(metas)}),
                                 bloom |-> FALSE]]

SsTable_num_of_blocks(t) == Len(t.block_meta)

\* the byte range <<left, right>> read_block(block_idx) hands to file.read as
\* (left, right - left); <<>> when it returns or panics before reading
SsTable_read_block_range(t, block_idx) ==
    IF block_idx >= Len(t.block_meta) THEN <<>>
    ELSE LET left == t.block_meta[block_idx + 1].offset
             right == IF block_idx = Len(t.block_meta) - 1
                      THEN t.block_meta_offset
                      ELSE t.block_meta[block_idx + 2].offset
         IN IF right < left THEN <<>> ELSE <<left, right>>

\* a mutation of SsTable_read_block: every block is read up to the block meta
SsTable_read_block_to_meta(t, f, block_idx) ==
    IF block_idx >= Len(t.block_meta) THEN [status |-> "err", block |-> NoBlock]
    ELSE LET left == t.block_meta[block_idx + 1].offset
             right == t.block_meta_offset
         IN IF right < left THEN [status |-> "panic", block |-> NoBlock]
            ELSE LET r == FileObject_read(f, left, right - left)
                 IN IF r.status = "err" THEN [status |-> "err", block |-> NoBlock]
                    ELSE LET b == Block_decode(r.data)
                         IN IF b.panic THEN [status |-> "panic", block |-> NoBlock]
                            ELSE [status |-> "ok", block |-> b]

\* read_block(block_idx): [status |-> "ok" | "err" | "panic", block]
SsTable_read_block(t, f, block_idx) ==
    IF block_idx >= Len(t.block_meta) THEN [status |-> "err", block |-> NoBlock]
    ELSE LET left == t.block_meta[block_idx + 1].offset
             right == IF block_idx = Len(t.block_meta) - 1
                      THEN t.block_meta_offset
                      ELSE t.block_meta[block_idx + 2].offset
         IN IF right < left THEN [status |-> "panic", block |-> NoBlock]
            ELSE LET r == FileObject_read(f, left, right - left)
                 IN IF r.status = "err" THEN [status |-> "err", block |-> NoBlock]
                    ELSE LET b == Block_decode(r.data)
                         IN IF b.panic THEN [status |-> "panic", block |-> NoBlock]
                            ELSE [status |-> "ok", block |-> b]

\* a mutation of SsTable_cache_key: the key leaves the block index out
SsTable_cache_key_id_only(t, block_idx) == <<t.id, 0>>

\* let key = (self.id, block_idx)
SsTable_cache_key(t, block_idx) == <<t.id, block_idx>>

SsTable_read_block_cached(t, f, block_idx) ==
    IF t.block_cache.some
    THEN LET res == BlockCache_try_get_with(t.block_cache,
                                            SsTable_cache_key(t, block_idx),
                                            SsTable_read_block(t, f, block_idx))
         IN IF res.status = "err" THEN [status |-> "err", block |-> NoBlock]
            ELSE res
    ELSE SsTable_read_block(t, f, block_idx)

\* the table, its block cache as read_block_cached(block_idx) leaves it
SsTable_after_read_block_cached(t, f, block_idx) ==
    IF t.block_cache.some
    THEN [t EXCEPT !.block_cache =
             BlockCache_after_get(@, SsTable_cache_key(t, block_idx),
                                  SsTable_read_block(t, f, block_idx))]
    ELSE t

\* a mutation of SsTable_find_block_idx: the block is chosen by its first key
SsTable_find_block_idx_first_key(t, key) ==
    IF \E i \in 1..Len(t.block_meta) : KeyGeq(t.block_meta[i].first_key, key)
    THEN (CHOOSE i \in 1..Len(t.block_meta) :
              /\ KeyGeq(t.block_meta[i].first_key, key)
              /\ \A j \in 1..(i - 1) : KeyLess(t.block_meta[j].first_key, key)) - 1
    ELSE Len(t.block_meta) - 1

\* find_block_idx(key): the first block whose last_key >= key, else the last block
SsTable_find_block_idx(t, key) ==
    IF \E i \in 1..Len(t.block_meta) : KeyGeq(t.block_meta[i].last_key, key)
    THEN (CHOOSE i \in 1..Len(t.block_meta) :
              /\ KeyGeq(t.block_meta[i].last_key, key)
              /\ \A j \in 1..(i - 1) : KeyLess(t.block_meta[j].last_key, key)) - 1
    ELSE Len(t.block_meta) - 1

---------------------------------------------------------------------------
(* SsTableBuilder *)

\* farmhash::fingerprint32(key): a stable hash of the key bytes (external crate)
RECURSIVE Fingerprint32(_)
Fingerprint32(key) ==
    IF key = <<>> THEN 7 ELSE (Fingerprint32(Tail(key)) * 31 + Head(key)) % U16

\* Bloom (table/bloom.rs is not among the source files): the encoding is the
\* bit array followed by the number of probes k; the bit array depends on the
\* fingerprints, which are opaque, so a run draws it from a few arrays
BloomK == 7
BloomBitArrays == {<<85, 85>>, <<0, 0, 0, 0, 0, 0, 0, 1>>}
Bloom_encode(bits) == bits \o <<BloomK>>

SsTableBuilder_new(block_size) ==
    [builder |-> BlockBuilder_new(block_size),
     first_key |-> <<>>, last_key |-> <<>>,
     data |-> <<>>, meta |-> <<>>,
     block_size |-> block_size, key_hashes |-> <<>>]

\* the block split of add (and the start of build): push the BlockMeta of the
\* current block, append its encoding to data, start a fresh BlockBuilder
\* a mutation of FinishBlock: the block's keys are recorded the other way round
FinishBlock_keys_swapped(tb) ==
    [tb EXCEPT !.meta = Append(@, BlockMeta(Len(tb.data),
                                            BlockBuilder_last_key(tb.builder),
                                            BlockBuilder_first_key(tb.builder))),
               !.data = @ \o Block_encode(BlockBuilder_build(tb.builder)),
               !.builder = BlockBuilder_new(tb.block_size)]

\* a mutation of FinishBlock: the offset recorded is the end of the block
FinishBlock_end_offset(tb) ==
    [tb EXCEPT !.meta = Append(@, BlockMeta(Len(tb.data)
                                                + Len(Block_encode(BlockBuilder_build(tb.builder))),
                                            BlockBuilder_first_key(tb.builder),
                                            BlockBuilder_last_key(tb.builder))),
               !.data = @ \o Block_encode(BlockBuilder_build(tb.builder)),
               !.builder = BlockBuilder_new(tb.block_size)]

\* the current block is finished: its meta is recorded, its encoding appended
FinishBlock(tb) ==
    [tb EXCEPT !.meta = Append(@, BlockMeta(Len(tb.data),
                                            BlockBuilder_first_key(tb.builder),
                                            BlockBuilder_last_key(tb.builder))),
               !.data = @ \o Block_encode(BlockBuilder_build(tb.builder)),
               !.builder = BlockBuilder_new(tb.block_size)]

\* a mutation of SsTableBuilder_add: first_key follows the current block
SsTableBuilder_add_first_key_of_block(tb, key, value) ==
    LET r == BlockBuilder_add(tb.builder, key, value)
        split == FinishBlock(tb)
        r2 == BlockBuilder_add(split.builder, key, value)
        t1 == IF r.ret = "false" THEN [split EXCEPT !.builder = r2.b]
                                 ELSE [tb EXCEPT !.builder = r.b]
        t2 == [t1 EXCEPT !.key_hashes = Append(@, Fingerprint32(key))]
        t3 == [t2 EXCEPT !.first_key = BlockBuilder_first_key(t2.builder)]
        t4 == IF t3.last_key = <<>>
                 \/ KeyLess(t3.last_key, BlockBuilder_last_key(t3.builder))
              THEN [t3 EXCEPT !.last_key = BlockBuilder_last_key(t3.builder)]
              ELSE t3
    IN IF r.ret = "panic" \/ (r.ret = "false" /\ r2.ret = "panic")
       THEN [panic |-> TRUE, tb |-> tb]
       ELSE [panic |-> FALSE, tb |-> t4]

\* add(key, value): [panic, tb |-> the builder after]
SsTableBuilder_add(tb, key, value) ==
    LET r == BlockBuilder_add(tb.builder, key, value)
        split == FinishBlock(tb)
        r2 == BlockBuilder_add(split.builder, key, value)
        t1 == IF r.ret = "false" THEN [split EXCEPT !.builder = r2.b]
                                 ELSE [tb EXCEPT !.builder = r.b]
        t2 == [t1 EXCEPT !.key_hashes = Append(@, Fingerprint32(key))]
        t3 == IF t2.first_key = <<>>
                 \/ KeyLess(BlockBuilder_first_key(t2.builder), t2.first_key)
              THEN [t2 EXCEPT !.first_key = BlockBuilder_first_key(t2.builder)]
              ELSE t2
        t4 == IF t3.last_key = <<>>
                 \/ KeyLess(t3.last_key, BlockBuilder_last_key(t3.builder))
              THEN [t3 EXCEPT !.last_key = BlockBuilder_last_key(t3.builder)]
              ELSE t3
    IN IF r.ret = "panic" \/ (r.ret = "false" /\ r2.ret = "panic")
       THEN [panic |-> TRUE, tb |-> tb]
       ELSE [panic |-> FALSE, tb |-> t4]

SsTableBuilder_estimated_size(tb) == Len(tb.data)

\* build(id, block_cache, path): the bytes written and the SsTable returned
SsTableBuilder_build(tb, bits) ==
    LET fin == FinishBlock(tb)
        extra == Len(fin.data)
        with_meta == BlockMeta_encode_block_meta(fin.meta, fin.data) \o PutU32(extra)
        bloom_offset == Len(with_meta)
        data == with_meta \o Bloom_encode(bits) \o PutU32(bloom_offset)
    IN [file |-> data,
        table |-> [origin |-> "build",
                   block_meta |-> fin.meta,
                   block_meta_offset |-> extra,
                   id |-> 0,
                   block_cache |-> NoCache,
                   first_key |-> tb.first_key,
                   last_key |-> tb.last_key,
                   bloom |-> TRUE]]

---------------------------------------------------------------------------
(* SsTableIterator *)

NoSstIter == [status |-> "none", blk_idx |-> 0, blk_iter |-> BlockIterator_new(NoBlock)]

\* the outcome of a call that failed in read_block_cached (status "err") or
\* panicked; blk_idx and blk_iter are what the call had assigned by then
SstFail(status, idx, bi) ==
    [status |-> status, blk_idx |-> idx, blk_iter |-> bi]

\* the iterator positioned on the first entry of block blk_idx; prev is the
\* BlockIterator kept when the block cannot be read
SstAtBlockFirst(t, f, blk_idx, prev) ==
    LET r == SsTable_read_block_cached(t, f, blk_idx)
        bi == BlockIterator_create_and_seek_to_first(r.block)
    IN IF r.status # "ok" THEN SstFail(r.status, blk_idx, prev)
       ELSE IF bi.panic THEN SstFail("panic", blk_idx, prev)
       ELSE [status |-> "ok", blk_idx |-> blk_idx, blk_iter |-> bi]

SsTableIterator_create_and_seek_to_first(t, f) ==
    SstAtBlockFirst(t, f, 0, BlockIterator_new(NoBlock))

SsTableIterator_seek_to_first(it, t, f) ==
    LET r == SstAtBlockFirst(t, f, 0, it.blk_iter)
    IN IF r.status = "ok" THEN r ELSE SstFail(r.status, it.blk_idx, it.blk_iter)

SsTableIterator_seek_to_key_inner(t, f, key, prev) ==
    LET blk_idx == SsTable_find_block_idx(t, key)
        r == SsTable_read_block_cached(t, f, blk_idx)
        bi == BlockIterator_create_and_seek_to_key(r.block, key)
    IN IF r.status # "ok" THEN SstFail(r.status, prev.blk_idx, prev.blk_iter)
       ELSE IF bi.panic THEN SstFail("panic", prev.blk_idx, prev.blk_iter)
       ELSE IF BlockIterator_is_valid(bi)
       THEN [status |-> "ok", blk_idx |-> blk_idx, blk_iter |-> bi]
       ELSE IF blk_idx + 1 < SsTable_num_of_blocks(t)
       THEN LET nx == SstAtBlockFirst(t, f, blk_idx + 1, bi)
            IN IF nx.status = "ok" THEN nx
               ELSE SstFail(nx.status, prev.blk_idx, prev.blk_iter)
       ELSE [status |-> "ok", blk_idx |-> blk_idx + 1, blk_iter |-> bi]

SsTableIterator_seek_to_key(it, t, f, key) ==
    SsTableIterator_seek_to_key_inner(t, f, key, it)

SsTableIterator_create_and_seek_to_key(t, f, key) ==
    LET it == SsTableIterator_create_and_seek_to_first(t, f)
    IN IF it.status # "ok" THEN it ELSE SsTableIterator_seek_to_key(it, t, f, key)

SsTableIterator_is_valid(it) == BlockIterator_is_valid(it.blk_iter)
SsTableIterator_key(it) == BlockIterator_key(it.blk_iter)
SsTableIterator_value(it) == BlockIterator_value(it.blk_iter)

SsTableIterator_next(it, t, f) ==
    LET bi == BlockIterator_next(it.blk_iter)
    IN IF bi.panic THEN SstFail("panic", it.blk_idx, it.blk_iter)
       ELSE IF BlockIterator_is_valid(bi)
       THEN [it EXCEPT !.blk_iter = bi]
       ELSE IF it.blk_idx + 1 < SsTable_num_of_blocks(t)
       THEN SstAtBlockFirst(t, f, it.blk_idx + 1, bi)
       ELSE [it EXCEPT !.blk_iter = bi, !.blk_idx = it.blk_idx + 1]

---------------------------------------------------------------------------
(* History helpers: what an iterator is showing, compared with the entries *)

Entry(key, value) == [key |-> key, value |-> value]

\* the index of the entry of es the iterator shows through key() and value();
\* 0 when it is invalid or shows no entry of es
PosIn(es, it) ==
    IF ~it.panic /\ BlockIterator_is_valid(it)
       /\ \E j \in 1..Len(es) : es[j] = Entry(it.key, BlockIterator_value(it))
    THEN CHOOSE j \in 1..Len(es) : es[j] = Entry(it.key, BlockIterator_value(it))
    ELSE 0

\* the index of the first entry of es whose key is >= key; Len(es) + 1 when none
LowerBound(es, key) ==
    IF \E j \in 1..Len(es) : KeyGeq(es[j].key, key)
    THEN CHOOSE j \in 1..Len(es) :
             KeyGeq(es[j].key, key) /\ \A i \in 1..(j - 1) : KeyLess(es[i].key, key)
    ELSE Len(es) + 1

Ascending(es) == \A i \in 1..(Len(es) - 1) : KeyLess(es[i].key, es[i + 1].key)

NoOp == [op |-> "none", target |-> <<>>, from |-> 0, via |-> "none", nexts |-> 0]

---------------------------------------------------------------------------
(* MergeIterator *)

\* the keys the input cursors of a merge draw from
MergeKeys == {<<1>>, <<2>>, <<3>>}

\* an input cursor (a StorageIterator): the entries it yields and the 1-based
\* position of the one it shows; past the last entry it is invalid
Cursor(es) == [entries |-> es, pos |-> 1]
Cursor_is_valid(c) == c.pos <= Len(c.entries)
Cursor_key(c) == IF Cursor_is_valid(c) THEN c.entries[c.pos].key ELSE <<>>
Cursor_value(c) == IF Cursor_is_valid(c) THEN c.entries[c.pos].value ELSE <<>>
\* next(): Err leaves the cursor where it was
Cursor_next(c, fails) ==
    IF fails THEN [status |-> "err", c |-> c]
    ELSE [status |-> "ok", c |-> [c EXCEPT !.pos = IF Cursor_is_valid(c) THEN c.pos + 1 ELSE c.pos]]

HeapWrapper(idx, iter) == [idx |-> idx, iter |-> iter]

Reverse(o) == IF o = "Less" THEN "Greater" ELSE IF o = "Greater" THEN "Less" ELSE o

CmpKey(a, b) == IF KeyLess(a, b) THEN "Less" ELSE IF KeyLess(b, a) THEN "Greater" ELSE "Equal"
CmpIdx(a, b) == IF a < b THEN "Less" ELSE IF a > b THEN "Greater" ELSE "Equal"

\* the order without the final reverse()
HeapWrapper_partial_cmp_unreversed(a, b) ==
    LET c == CmpKey(Cursor_key(a.iter), Cursor_key(b.iter))
    IN IF c = "Equal" THEN CmpIdx(a.idx, b.idx) ELSE c

\* the order with equal keys ranked by the larger index first
HeapWrapper_partial_cmp_larger_idx(a, b) ==
    LET c == CmpKey(Cursor_key(a.iter), Cursor_key(b.iter))
    IN Reverse(IF c = "Equal" THEN CmpIdx(b.idx, a.idx) ELSE c)

\* HeapWrapper::partial_cmp: by key, then by index, reversed
HeapWrapper_partial_cmp(a, b) ==
    LET c == CmpKey(Cursor_key(a.iter), Cursor_key(b.iter))
    IN Reverse(IF c = "Equal" THEN CmpIdx(a.idx, b.idx) ELSE c)

\* BinaryHeap::peek / peek_mut / pop: the greatest element of the heap
BinaryHeap_peek(h) ==
    CHOOSE w \in h : \A o \in h : HeapWrapper_partial_cmp(w, o) # "Less"

NoMerge == [iters |-> {}, current |-> <<>>]

\* MergeIterator::create(iters); current is <<>> for None, <<w>> for Some(w)
MergeIterator_create(iters) ==
    LET binary_heap == {HeapWrapper(id, iters[id + 1]) :
                          id \in {i \in 0..(Len(iters) - 1) : Cursor_is_valid(iters[i + 1])}}
    IN IF binary_heap = {} THEN NoMerge
       ELSE LET top == BinaryHeap_peek(binary_heap)
            IN [iters |-> binary_heap \ {top}, current |-> <<top>>]

MergeIterator_key(m) ==
    IF m.current = <<>> THEN <<>> ELSE Cursor_key(m.current[1].iter)

MergeIterator_value(m) ==
    IF m.current = <<>> THEN <<>> ELSE Cursor_value(m.current[1].iter)

\* a mutation of MergeIterator_is_valid: valid whenever there is a current
MergeIterator_is_valid_has_current(m) == m.current # <<>>

MergeIterator_is_valid(m) ==
    IF m.current = <<>> THEN FALSE ELSE Cursor_is_valid(m.current[1].iter)

\* a comparison that never finds the heap top on current's key
SameKey_never(inner_iter, current) == FALSE

\* inner_iter.1.key() == current.1.key()
SameKey(inner_iter, current) == Cursor_key(inner_iter.iter) = Cursor_key(current.iter)

\* a mutation of MergeIterator_next_drain: a cursor whose next() errs stays in
\* the heap
RECURSIVE MergeIterator_next_drain_keeps_failed(_, _, _)
MergeIterator_next_drain_keeps_failed(h, current, failing) ==
    IF h = {} THEN [status |-> "ok", iters |-> h]
    ELSE LET inner_iter == BinaryHeap_peek(h)
         IN IF overflow_checks
               /\ KeyLess(Cursor_key(inner_iter.iter), Cursor_key(current.iter))
            THEN [status |-> "panic", iters |-> h]
            ELSE IF SameKey(inner_iter, current)
            THEN LET r == Cursor_next(inner_iter.iter, failing = inner_iter.idx)
                 IN IF r.status = "err"
                    THEN [status |-> "err", iters |-> h]
                    ELSE IF ~Cursor_is_valid(r.c)
                    THEN MergeIterator_next_drain_keeps_failed(h \ {inner_iter}, current, failing)
                    ELSE MergeIterator_next_drain_keeps_failed(
                             (h \ {inner_iter}) \cup {HeapWrapper(inner_iter.idx, r.c)},
                             current, failing)
            ELSE [status |-> "ok", iters |-> h]

\* the while loop of next: advance every heap top that shows current's key.
\* failing is the index of the stream whose next() errs in this call (-1: none);
\* a failed debug_assert panics in a debug build and is not evaluated otherwise.
RECURSIVE MergeIterator_next_drain(_, _, _)
MergeIterator_next_drain(h, current, failing) ==
    IF h = {} THEN [status |-> "ok", iters |-> h]
    ELSE LET inner_iter == BinaryHeap_peek(h)
         IN IF overflow_checks
               /\ KeyLess(Cursor_key(inner_iter.iter), Cursor_key(current.iter))
            THEN [status |-> "panic", iters |-> h]
            ELSE IF SameKey(inner_iter, current)
            THEN LET r == Cursor_next(inner_iter.iter, failing = inner_iter.idx)
                 IN IF r.status = "err"
                    THEN [status |-> "err", iters |-> h \ {inner_iter}]
                    ELSE IF ~Cursor_is_valid(r.c)
                    THEN MergeIterator_next_drain(h \ {inner_iter}, current, failing)
                    ELSE MergeIterator_next_drain(
                             (h \ {inner_iter}) \cup {HeapWrapper(inner_iter.idx, r.c)},
                             current, failing)
            ELSE [status |-> "ok", iters |-> h]

\* MergeIterator::next(): [status |-> "ok" | "err" | "panic", m |-> the iterator after]
MergeIterator_next(m, failing) ==
    IF m.current = <<>> THEN [status |-> "panic", m |-> m]
    ELSE
    LET current == m.current[1]
        d == MergeIterator_next_drain(m.iters, current, failing)
        r == Cursor_next(current.iter, failing = current.idx)
        advanced == HeapWrapper(current.idx, r.c)
    IN IF d.status # "ok"
       THEN [status |-> d.status, m |-> [iters |-> d.iters, current |-> m.current]]
       ELSE IF r.status = "err"
       THEN [status |-> "err", m |-> [iters |-> d.iters, current |-> m.current]]
       ELSE IF ~Cursor_is_valid(advanced.iter)
       THEN IF d.iters = {}
            THEN [status |-> "ok", m |-> [iters |-> d.iters, current |-> <<advanced>>]]
            ELSE LET iter == BinaryHeap_peek(d.iters)
                 IN [status |-> "ok",
                     m |-> [iters |-> d.iters \ {iter}, current |-> <<iter>>]]
       ELSE IF d.iters = {}
       THEN [status |-> "ok", m |-> [iters |-> d.iters, current |-> <<advanced>>]]
       ELSE LET inner_iter == BinaryHeap_peek(d.iters)
            IN IF HeapWrapper_partial_cmp(advanced, inner_iter) = "Less"
               THEN [status |-> "ok",
                     m |-> [iters |-> (d.iters \ {inner_iter}) \cup {advanced},
                            current |-> <<inner_iter>>]]
               ELSE [status |-> "ok", m |-> [iters |-> d.iters, current |-> <<advanced>>]]

NoMergeOp == [op |-> "none", status |-> "none", out |-> <<>>, errors |-> 0]

MergeOff ==
    /\ mphase = "off"
    /\ inputs = <<>>
    /\ merge = NoMerge
    /\ merge_op = NoMergeOp

---------------------------------------------------------------------------
(* Actions on a BlockBuilder, its Block and a BlockIterator over it *)

\* builder.add(k, v), keys fed in strictly ascending order
BlockAdd(k, v) ==
    /\ bphase = "building"
    /\ Len(added) < Dom.max_entries
    /\ IF added = <<>> THEN TRUE ELSE KeyLess(Last(added).key, k)
    /\ LET r == BlockBuilder_add(builder, k, v)
       IN /\ builder' = r.b
          /\ add_result' = r.ret
          /\ added' = IF r.ret = "true" THEN Append(added, Entry(k, v)) ELSE added
          /\ bphase' = IF r.ret = "panic" THEN "panic" ELSE bphase
    /\ UNCHANGED <<block, decoded, blk_iter, blk_op, envvars, metavars, svars, tvars, mvars>>

\* builder.build(): the vectors are moved out of the builder
BlockBuild ==
    /\ bphase = "building"
    /\ block' = BlockBuilder_build(builder)
    /\ builder' = [builder EXCEPT !.data = <<>>, !.offsets = <<>>]
    /\ bphase' = "built"
    /\ UNCHANGED <<added, add_result, decoded, blk_iter, blk_op, envvars, metavars, svars, tvars, mvars>>

\* Block::decode(&block.encode())
BlockEncodeDecode ==
    /\ bphase = "built"
    /\ decoded = NoBlock
    /\ decoded' = Block_decode(Block_encode(block))
    /\ UNCHANGED <<bphase, builder, added, add_result, block, blk_iter, blk_op, envvars, metavars, svars, tvars, mvars>>

\* one call on the block iterator: the iterator after it and the history of the call
BlockIterCall(op, target, after) ==
    /\ blk_iter' = after
    /\ blk_op' = [op |-> op, target |-> target,
                  from |-> PosIn(added, blk_iter),
                  via |-> blk_op.op,
                  nexts |-> IF op = "next" THEN blk_op.nexts + 1 ELSE 0]
    /\ bphase' = IF after.panic THEN "panic" ELSE bphase
    /\ UNCHANGED <<builder, added, add_result, block, decoded, envvars, metavars, svars, tvars, mvars>>

BlockIterCreateAndSeekToFirst ==
    /\ bphase = "built"
    /\ blk_op.op = "none"
    /\ BlockIterCall("seek_to_first", <<>>, BlockIterator_create_and_seek_to_first(block))

BlockIterCreateAndSeekToKey(t) ==
    /\ bphase = "built"
    /\ blk_op.op = "none"
    /\ BlockIterCall("seek_to_key", t, BlockIterator_create_and_seek_to_key(block, t))

BlockIterSeekToFirst ==
    /\ bphase = "built"
    /\ blk_op.op # "none"
    /\ BlockIterCall("seek_to_first", <<>>, BlockIterator_seek_to_first(blk_iter))

BlockIterSeekToKey(t) ==
    /\ bphase = "built"
    /\ blk_op.op # "none"
    /\ BlockIterCall("seek_to_key", t, BlockIterator_seek_to_key(blk_iter, t))

BlockIterNext ==
    /\ bphase = "built"
    /\ blk_op.op # "none"
    /\ blk_op.nexts < MaxNexts
    /\ BlockIterCall("next", <<>>, BlockIterator_next(blk_iter))

\* the table-side records as kept in the state (byte vectors packed) and as
\* the operations read them
StoreEntries(es) ==
    [j \in 1..Len(es) |-> [key |-> Pack(es[j].key), value |-> Pack(es[j].value)]]
LoadEntries(es) ==
    [j \in 1..Len(es) |-> [key |-> Unpack(es[j].key), value |-> Unpack(es[j].value)]]
StoreBuilder(tb) == [tb EXCEPT !.data = Pack(@), !.builder.data = Pack(@)]
LoadBuilder(tb) == [tb EXCEPT !.data = Unpack(@), !.builder.data = Unpack(@)]
StoreIter(it) ==
    [it EXCEPT !.blk_iter.block.data = Pack(@), !.blk_iter.key = Pack(@)]
LoadIter(it) ==
    [it EXCEPT !.blk_iter.block.data = Unpack(@), !.blk_iter.key = Unpack(@)]

Entries == LoadEntries(entries)
SstBuilder == LoadBuilder(sst_builder)
File == Unpack(file)
SstIter == LoadIter(sst_iter)
\* the entries the iterator has shown since the last seek
Out == LoadEntries(sst_op.out)

NoSstOp ==
    [op |-> "none", start |-> "none", target |-> <<>>, nexts |-> 0,
     out |-> <<>>, ended |-> FALSE, revived |-> FALSE]

NoFind == [status |-> "none", key |-> <<>>, idx |-> 0]

NoRead == [status |-> "none", idx |-> 0, range |-> <<>>, block |-> NoBlock]

TableOff ==
    /\ tphase = "off"
    /\ find_op = NoFind
    /\ read_op = NoRead
    /\ sst_builder = StoreBuilder(SsTableBuilder_new(0))
    /\ entries = <<>>
    /\ file = <<>>
    /\ table = NoTable
    /\ sst_iter = StoreIter(NoSstIter)
    /\ sst_op = NoSstOp

InitBlock ==
    /\ overflow_checks \in BOOLEAN
    /\ dom = "small"
    /\ bphase = "building"
    /\ \E block_size \in Dom.sizes : builder = BlockBuilder_new(block_size)
    /\ added = <<>>
    /\ add_result = "none"
    /\ block = NoBlock
    /\ decoded = NoBlock
    /\ blk_iter = BlockIterator_new(NoBlock)
    /\ blk_op = NoOp
    /\ TableOff
    /\ MergeOff
    /\ MetaOff
    /\ SharedOff

NextBlock ==
    \/ \E k \in Dom.keys, v \in Dom.vals : BlockAdd(k, v)
    \/ BlockBuild
    \/ BlockEncodeDecode
    \/ BlockIterCreateAndSeekToFirst
    \/ \E t \in Dom.targets : BlockIterCreateAndSeekToKey(t)
    \/ BlockIterSeekToFirst
    \/ \E t \in Dom.targets : BlockIterSeekToKey(t)
    \/ BlockIterNext

SpecBlock == InitBlock /\ [][NextBlock]_vars

---------------------------------------------------------------------------
(* Claims about Block, BlockBuilder and BlockIterator (under SpecBlock) *)

BlockHasEntries == bphase \in {"built", "panic"} /\ Len(added) >= 1

C8_NextAdvancesByOne ==
    (BlockHasEntries /\ blk_op.op = "next" /\ blk_op.from >= 1) =>
        /\ ~blk_iter.panic
        /\ IF blk_op.from < Len(added)
           THEN PosIn(added, blk_iter) = blk_op.from + 1
           ELSE ~BlockIterator_is_valid(blk_iter)

\* C10: for a Block built after one or more successful adds,
\* Block::decode(block.encode()) has the same data and the same offsets.
C10_DecodeEncodeIdentity ==
    (BlockHasEntries /\ decoded # NoBlock) =>
        /\ ~decoded.panic
        /\ decoded.data = block.data
        /\ decoded.offsets = block.offsets

\* a block of two entries has been encoded and decoded
C10_Witness ==
    /\ BlockHasEntries
    /\ decoded # NoBlock
    /\ Len(added) >= 2
    /\ Len(block.offsets) = Len(added) + 1

\* C11: after every BlockBuilder.add that returns true, either the block
\* holds exactly one entry or the finalized-size estimate
\* data.len() + 2 * (number of entries) + 2 is strictly below target_size.
C11_AcceptedAddKeepsEstimateBelowTarget ==
    (bphase = "building" /\ add_result = "true") =>
        \/ Len(added) = 1
        \/ Len(builder.data) + 2 * Len(added) + 2 < builder.block_size

\* C12: for a block built from n >= 1 added entries the encoding is the entry
\* data, then exactly n big-endian u16 offsets, then a two-byte trailer whose
\* value is n; the encoded length is data.len() + 2 * n + 2.
C12_EncodingIsDataOffsetsCount ==
    (bphase = "built" /\ Len(added) >= 1) =>
        LET n == Len(added)
            enc == Block_encode(block)
            starts == [i \in 1..n |-> block.offsets[i]]
        IN /\ Len(enc) = Len(block.data) + 2 * n + 2
           /\ enc = block.data \o OffsetsBytes(starts) \o PutU16(n)

\* the offsets where the entries of a data section start, in order
RECURSIVE EntryStarts(_, _)
EntryStarts(data, from) ==
    IF from + 2 * SIZEOF_U16 > Len(data) THEN <<>>
    ELSE LET key_len == GetU16(data, from)
             value_len == IF from + SIZEOF_U16 + key_len + SIZEOF_U16 <= Len(data)
                          THEN GetU16(data, from + SIZEOF_U16 + key_len)
                          ELSE 0
         IN <<from>> \o EntryStarts(data, from + 2 * SIZEOF_U16 + key_len + value_len)

\* offsets.len() == n, offsets[0] == 0, strictly increasing, each the start
\* of an entry header inside data
WellFormedOffsets(b, n) ==
    /\ ~b.panic
    /\ Len(b.offsets) = n
    /\ b.offsets[1] = 0
    /\ \A i \in 1..(Len(b.offsets) - 1) : b.offsets[i] < b.offsets[i + 1]
    /\ \A i \in 1..Len(b.offsets) :
           \E j \in 1..Len(EntryStarts(b.data, 0)) : EntryStarts(b.data, 0)[j] = b.offsets[i]

\* C13: every Block returned by BlockBuilder.build after n >= 1 successful
\* adds, and every Block decoded from such a block's encoding, has
\* offsets.len() == n, offsets[0] == 0, strictly increasing offsets, each of
\* them the start of an entry header inside data.
C13_BuiltAndDecodedOffsetsWellFormed ==
    (bphase = "built" /\ Len(added) >= 1) =>
        /\ WellFormedOffsets(block, Len(added))
        /\ decoded # NoBlock => WellFormedOffsets(decoded, Len(added))

---------------------------------------------------------------------------
(* Actions on an SsTableBuilder, the SsTable it builds and an SsTableIterator *)

\* what a valid iterator shows
Shown(it) ==
    IF SsTableIterator_is_valid(it)
    THEN <<Entry(SsTableIterator_key(it), SsTableIterator_value(it))>>
    ELSE <<>>

\* sst_builder.add(k, v), keys fed in strictly ascending order
TableAdd(k, v) ==
    /\ tphase = "building"
    /\ Len(entries) < Dom.max_entries
    /\ IF entries = <<>> THEN TRUE ELSE KeyLess(Last(Entries).key, k)
    /\ LET r == SsTableBuilder_add(SstBuilder, k, v)
       IN /\ sst_builder' = StoreBuilder(r.tb)
          /\ entries' = IF r.panic THEN entries
                        ELSE entries \o StoreEntries(<<Entry(k, v)>>)
          /\ tphase' = IF r.panic THEN "failed" ELSE tphase
          /\ sst_op' = IF r.panic THEN [sst_op EXCEPT !.op = "add"] ELSE sst_op
    /\ find_op' = NoFind
    /\ read_op' = NoRead
    /\ UNCHANGED <<file, table, sst_iter, envvars, metavars, svars, bvars, mvars>>

\* sst_builder.build(id, None, path)
TableBuild ==
    /\ tphase = "building"
    /\ \E bits \in BloomBitArrays :
          LET r == SsTableBuilder_build(SstBuilder, bits)
          IN /\ file' = Pack(r.file)
             /\ table' = r.table
    /\ tphase' = "table"
    /\ find_op' = NoFind
    /\ read_op' = NoRead
    /\ UNCHANGED <<sst_builder, entries, sst_iter, sst_op, envvars, metavars, svars, bvars, mvars>>

\* SsTable::open(id, None, FileObject::open(path)) on the file build wrote
TableOpen ==
    /\ tphase = "table"
    /\ table.origin = "build"
    /\ sst_op.op = "none"
    /\ LET r == SsTable_open(File)
       IN /\ table' = IF r.status = "ok" THEN r.table ELSE [table EXCEPT !.origin = "open"]
          /\ tphase' = IF r.status = "ok" THEN tphase ELSE "failed"
          /\ sst_op' = [sst_op EXCEPT !.op = "open"]
    /\ find_op' = NoFind
    /\ read_op' = NoRead
    /\ UNCHANGED <<sst_builder, entries, file, sst_iter, envvars, metavars, svars, bvars, mvars>>

\* a seek on the table iterator: the iterator after it and the history
SstSeek(op, start, target, after) ==
    /\ sst_iter' = StoreIter(after)
    /\ sst_op' = [op |-> op, start |-> start, target |-> target, nexts |-> 0,
                  out |-> IF after.status = "ok" THEN StoreEntries(Shown(after))
                          ELSE <<>>,
                  ended |-> after.status = "ok" /\ ~SsTableIterator_is_valid(after),
                  revived |-> FALSE]
    /\ tphase' = IF after.status = "ok" THEN tphase ELSE "failed"
    /\ find_op' = NoFind
    /\ read_op' = NoRead
    /\ UNCHANGED <<sst_builder, entries, file, table, envvars, metavars, svars, bvars, mvars>>

\* table.find_block_idx(key) on a table no iterator has been created over;
\* on a table without blocks block_meta.len() - 1 overflows: a panic with
\* overflow checks, usize::MAX (written -1) without
TableFindBlockIdx(key) ==
    /\ tphase = "table"
    /\ sst_iter.status = "none"
    /\ LET empty == SsTable_num_of_blocks(table) = 0
       IN /\ find_op' = [status |-> IF ~empty THEN "ok"
                                    ELSE IF overflow_checks THEN "panic" ELSE "wrapped",
                         key |-> key,
                         idx |-> SsTable_find_block_idx(table, key)]
          /\ tphase' = IF empty /\ overflow_checks THEN "failed" ELSE tphase
    /\ read_op' = NoRead
    /\ UNCHANGED <<sst_builder, entries, file, table, sst_iter, sst_op, envvars, metavars, svars, bvars, mvars>>

\* table.read_block(block_idx) on a table no iterator has been created over;
\* the block is kept with its data packed
TableReadBlock(block_idx) ==
    /\ tphase = "table"
    /\ sst_iter.status = "none"
    /\ LET r == SsTable_read_block(table, File, block_idx)
       IN /\ read_op' = [status |-> r.status,
                         idx |-> block_idx,
                         range |-> SsTable_read_block_range(table, block_idx),
                         block |-> [r.block EXCEPT !.data = Pack(@)]]
          /\ tphase' = IF r.status = "panic" THEN "failed" ELSE tphase
    /\ find_op' = NoFind
    /\ UNCHANGED <<sst_builder, entries, file, table, sst_iter, sst_op, envvars, metavars, svars, bvars, mvars>>

SstCreateAndSeekToFirst ==
    /\ tphase = "table"
    /\ sst_iter.status = "none"
    /\ SstSeek("seek_to_first", "first", <<>>,
               SsTableIterator_create_and_seek_to_first(table, File))

SstCreateAndSeekToKey(t) ==
    /\ tphase = "table"
    /\ sst_iter.status = "none"
    /\ SstSeek("seek_to_key", "key", t,
               SsTableIterator_create_and_seek_to_key(table, File, t))

SstSeekToFirst ==
    /\ tphase = "table"
    /\ sst_iter.status = "ok"
    /\ SstSeek("seek_to_first", "first", <<>>,
               SsTableIterator_seek_to_first(SstIter, table, File))

SstSeekToKey(t) ==
    /\ tphase = "table"
    /\ sst_iter.status = "ok"
    /\ SstSeek("seek_to_key", "key", t,
               SsTableIterator_seek_to_key(SstIter, table, File, t))

\* next(); the caller collects what the iterator shows until it first sees it
\* invalid, and may go on calling next() after that
SstNext ==
    /\ tphase = "table"
    /\ sst_iter.status = "ok"
    /\ sst_op.nexts < MaxNexts
    /\ LET after == SsTableIterator_next(SstIter, table, File)
           ok == after.status = "ok"
       IN /\ sst_iter' = StoreIter(after)
          /\ sst_op' = [sst_op EXCEPT
                 !.op = "next",
                 !.nexts = @ + 1,
                 !.out = IF ok /\ ~sst_op.ended
                         THEN @ \o StoreEntries(Shown(after)) ELSE @,
                 !.ended = @ \/ (ok /\ ~SsTableIterator_is_valid(after)),
                 !.revived = @ \/ (ok /\ sst_op.ended /\ SsTableIterator_is_valid(after))]
          /\ tphase' = IF ok THEN tphase ELSE "failed"
    /\ find_op' = NoFind
    /\ read_op' = NoRead
    /\ UNCHANGED <<sst_builder, entries, file, table, envvars, metavars, svars, bvars, mvars>>

BlockOff ==
    /\ bphase = "off"
    /\ builder = BlockBuilder_new(0)
    /\ added = <<>>
    /\ add_result = "none"
    /\ block = NoBlock
    /\ decoded = NoBlock
    /\ blk_iter = BlockIterator_new(NoBlock)
    /\ blk_op = NoOp

InitTable(d) ==
    /\ overflow_checks \in BOOLEAN
    /\ dom = d
    /\ BlockOff
    /\ tphase = "building"
    /\ \E block_size \in Domains(d).sizes :
          sst_builder = StoreBuilder(SsTableBuilder_new(block_size))
    /\ entries = <<>>
    /\ file = <<>>
    /\ table = NoTable
    /\ sst_iter = StoreIter(NoSstIter)
    /\ sst_op = NoSstOp
    /\ find_op = NoFind
    /\ read_op = NoRead
    /\ MergeOff
    /\ MetaOff
    /\ SharedOff

Init == InitTable("small")

Next ==
    \/ \E k \in Dom.keys, v \in Dom.vals : TableAdd(k, v)
    \/ TableBuild
    \/ TableOpen
    \/ \E t \in Dom.targets : TableFindBlockIdx(t)
    \/ \E block_idx \in 0..Dom.max_entries : TableReadBlock(block_idx)
    \/ SstCreateAndSeekToFirst
    \/ \E t \in Dom.targets : SstCreateAndSeekToKey(t)
    \/ SstSeekToFirst
    \/ \E t \in Dom.targets : SstSeekToKey(t)
    \/ SstNext

Spec == Init /\ [][Next]_vars

\* the same operations on entries at the limit of the format
InitWide == InitTable("wide")

SpecWide == InitWide /\ [][Next]_vars

---------------------------------------------------------------------------
(* SsTableIterators of several threads over one shared SsTable. Each thread *)
(* owns its iterator; a call is one step, the threads' calls interleave in  *)
(* any order, and the block cache, when the table has one, is the only      *)
(* state a call of one thread leaves behind for the other.                  *)

Threads == {1, 2}
SharedTargets == {<<2>>, <<4>>}
\* the tables the threads share hold this value under every key
SharedValue == <<7, 7>>

NoReader ==
    [start |-> "none", target |-> <<>>, nexts |-> 0, hits |-> 0,
     iter |-> NoSstIter, seen |-> <<>>]

\* what a call lets its caller observe: how it returned, and the key() and
\* value() of the iterator after it
Observed(it) ==
    [status |-> it.status, shown |-> IF it.status = "ok" THEN Shown(it) ELSE <<>>]

\* the block indexes the calls hand to read_block_cached, in order, told from
\* the iterator the call returned
ReadsOfCreate(t, start, key, after) ==
    IF start = "first" \/ after.status # "ok" THEN <<0>>
    ELSE LET blk_idx == SsTable_find_block_idx(t, key)
         IN IF after.blk_idx = blk_idx + 1 /\ blk_idx + 1 < SsTable_num_of_blocks(t)
            THEN <<0, blk_idx, blk_idx + 1>>
            ELSE <<0, blk_idx>>
ReadsOfNext(t, before, after) ==
    IF after.blk_idx = before.blk_idx + 1 /\ after.blk_idx < SsTable_num_of_blocks(t)
    THEN <<after.blk_idx>>
    ELSE <<>>

\* the table, its block cache as the reads leave it
RECURSIVE SsTable_after_reads(_, _, _)
SsTable_after_reads(t, f, reads) ==
    IF reads = <<>> THEN t
    ELSE SsTable_after_reads(SsTable_after_read_block_cached(t, f, reads[1]), f, Tail(reads))

\* history: how many of the reads the cache answered
RECURSIVE CacheHits(_, _, _)
CacheHits(t, f, reads) ==
    IF reads = <<>> THEN 0
    ELSE (IF SsTable_cache_key(t, reads[1]) \in BlockCache_keys(t.block_cache) THEN 1 ELSE 0)
         + CacheHits(SsTable_after_read_block_cached(t, f, reads[1]), f, Tail(reads))

\* thread i: SsTableIterator::create_and_seek_to_first(table.clone()) or
\* SsTableIterator::create_and_seek_to_key(table.clone(), key)
SharedCreate(i, start, key) ==
    /\ tphase = "shared"
    /\ readers[i].start = "none"
    /\ LET after == IF start = "first"
                    THEN SsTableIterator_create_and_seek_to_first(table, File)
                    ELSE SsTableIterator_create_and_seek_to_key(table, File, key)
           reads == ReadsOfCreate(table, start, key, after)
       IN /\ readers' = [readers EXCEPT ![i] =
                 [start |-> start, target |-> key, nexts |-> 0,
                  hits |-> CacheHits(table, File, reads),
                  iter |-> after, seen |-> <<Observed(after)>>]]
          /\ table' = SsTable_after_reads(table, File, reads)
    /\ UNCHANGED <<tphase, sst_builder, entries, file, sst_iter, sst_op, find_op,
                   read_op, envvars, metavars, bvars, mvars>>

\* thread i: iter.next()
SharedNext(i) ==
    /\ tphase = "shared"
    /\ readers[i].start # "none"
    /\ readers[i].iter.status = "ok"
    /\ readers[i].nexts < MaxEntries
    /\ LET before == readers[i].iter
           after == SsTableIterator_next(before, table, File)
           reads == ReadsOfNext(table, before, after)
       IN /\ readers' = [readers EXCEPT ![i] =
                 [@ EXCEPT !.nexts = @ + 1,
                           !.hits = @ + CacheHits(table, File, reads),
                           !.iter = after,
                           !.seen = Append(@, Observed(after))]]
          /\ table' = SsTable_after_reads(table, File, reads)
    /\ UNCHANGED <<tphase, sst_builder, entries, file, sst_iter, sst_op, find_op,
                   read_op, envvars, metavars, bvars, mvars>>

\* the block cache drops the block it holds under key (eviction by capacity)
SharedEvict(key) ==
    /\ tphase = "shared"
    /\ key \in BlockCache_keys(table.block_cache)
    /\ table' = [table EXCEPT !.block_cache = BlockCache_evict(@, key)]
    /\ UNCHANGED <<tphase, sst_builder, entries, file, sst_iter, sst_op, find_op,
                   read_op, readers, envvars, metavars, bvars, mvars>>

\* sst_builder.build(id, block_cache, path) with block_cache c, the SsTable
\* then handed to the threads, which have not yet created their iterators
SharedBuild(c) ==
    /\ tphase = "building"
    /\ \A j \in 1..Len(entries) : Entries[j].value = SharedValue
    /\ LET r == SsTableBuilder_build(SstBuilder, <<85, 85>>)
       IN /\ file' = Pack(r.file)
          /\ table' = [r.table EXCEPT !.block_cache = c]
    /\ tphase' = "shared"
    /\ readers' = [i \in Threads |-> NoReader]
    /\ UNCHANGED <<sst_builder, entries, sst_iter, sst_op, find_op, read_op,
                   envvars, metavars, bvars, mvars>>

NextShared ==
    \/ \E k \in Dom.keys, v \in Dom.vals : TableAdd(k, v)
    \/ \E c \in {NoCache, EmptyCache} : SharedBuild(c)
    \/ \E i \in Threads : SharedCreate(i, "first", <<>>)
    \/ \E i \in Threads, key \in SharedTargets : SharedCreate(i, "key", key)
    \/ \E i \in Threads : SharedNext(i)
    \/ \E block_idx \in 0..(MaxEntries - 1) : SharedEvict(<<table.id, block_idx>>)

SpecShared == Init /\ [][NextShared]_vars

---------------------------------------------------------------------------
(* Claims about SsTableBuilder, SsTable and SsTableIterator *)

IsPrefix(p, q) == Len(p) <= Len(q) /\ SubSeq(q, 1, Len(p)) = p

Suffix(q, j) == SubSeq(q, j, Len(q))

\* the table in use holds one entry or more, all added in ascending key order
HoldsEntries(origin) == table.origin = origin /\ Len(Entries) >= 1

\* C1: for entries E added in strictly ascending key order and written by
\* build, SsTable::open of the written file succeeds and iterating it from
\* seek_to_first until invalid yields exactly E, in order.
C1_OpenThenIterateYieldsEntries ==
    HoldsEntries("open") =>
        /\ tphase # "failed"
        /\ sst_op.start = "first" =>
              /\ IsPrefix(Out, Entries)
              /\ sst_op.ended => Out = Entries

\* C2: on a built table, after seek_to_key(k) with k the key of E[j] the
\* iterator shows E[j], and the next() calls then yield E[j+1], ..., E[m-1],
\* each once and in order, before the iterator becomes invalid.
C2_SeekToKeyThenNextYieldsSuffix ==
    (HoldsEntries("build") /\ sst_op.start = "key"
        /\ \E j \in 1..Len(Entries) : Entries[j].key = sst_op.target) =>
        LET j == CHOOSE i \in 1..Len(Entries) : Entries[i].key = sst_op.target
        IN /\ tphase # "failed"
           /\ Len(Out) >= 1
           /\ IsPrefix(Out, Suffix(Entries, j))
           /\ sst_op.ended => Out = Suffix(Entries, j)

\* C6: on a built table, seek_to_key(k) and create_and_seek_to_key(k) leave the
\* iterator on the entry with the smallest key >= k over all blocks (also when
\* that entry is the first of a block), and invalid exactly when there is none.
C6_SeekToKeySmallestGeq ==
    (HoldsEntries("build") /\ sst_op.op = "seek_to_key") =>
        LET j == LowerBound(Entries, sst_op.target)
        IN /\ tphase # "failed"
           /\ IF j <= Len(Entries)
              THEN /\ SsTableIterator_is_valid(SstIter)
                   /\ SsTableIterator_key(SstIter) = Entries[j].key
                   /\ SsTableIterator_value(SstIter) = Entries[j].value
              ELSE ~SsTableIterator_is_valid(SstIter)

\* C9: on a built table (any block target size, any number of block splits),
\* create_and_seek_to_first followed by next() until invalid yields exactly
\* the entries added, in input order, keys strictly ascending across blocks.
C9_IterateFromFirstYieldsEntries ==
    (HoldsEntries("build") /\ sst_op.start = "first") =>
        /\ tphase # "failed"
        /\ IsPrefix(Out, Entries)
        /\ Ascending(Out)
        /\ sst_op.ended => Out = Entries

\* C15: for an SsTable with at least one block, find_block_idx(key) returns
\* the smallest index i with block_meta[i].last_key >= key, and
\* num_of_blocks - 1 when no block has last_key >= key.
C15_FindBlockIdxSmallestLastKeyGeq ==
    (find_op.status # "none" /\ Len(table.block_meta) >= 1) =>
        LET n == Len(table.block_meta)
            covers(i) == KeyGeq(table.block_meta[i + 1].last_key, find_op.key)
        IN /\ find_op.status = "ok"
           /\ find_op.idx \in 0..(n - 1)
           /\ IF \E i \in 0..(n - 1) : covers(i)
              THEN covers(find_op.idx) /\ \A i \in 0..(find_op.idx - 1) : ~covers(i)
              ELSE find_op.idx = n - 1

\* on a table of three blocks the key lies strictly between the last keys of
\* the first and the middle block, and the middle block is found
C15_Witness ==
    /\ find_op.status = "ok"
    /\ Len(table.block_meta) = 3
    /\ find_op.idx = 1
    /\ KeyLess(table.block_meta[1].last_key, find_op.key)
    /\ KeyLess(find_op.key, table.block_meta[2].last_key)

\* the bytes of block i (1-based) of the built table in the written file, and
\* the keys of the entries stored in its data section, in order
BlockBytes(i) ==
    Slice(File, table.block_meta[i].offset,
          IF i = Len(table.block_meta) THEN table.block_meta_offset
          ELSE table.block_meta[i + 1].offset)
StoredKeys(i) ==
    LET data == Block_decode(BlockBytes(i)).data
        starts == EntryStarts(data, 0)
    IN [j \in 1..Len(starts) |-> KeyAt(data, starts[j]).key]

\* C16: after SsTableBuilder.add calls with strictly ascending keys followed
\* by build, for every block i the recorded first_key[i] and last_key[i] are
\* the keys of the first and the last entry stored in block i,
\* first_key[i] <= last_key[i], and last_key[i] < first_key[i+1].
C16_BlockMetaKeysOrdered ==
    HoldsEntries("build") =>
        \A i \in 1..Len(table.block_meta) :
            LET m == table.block_meta[i]
                ks == StoredKeys(i)
            IN /\ ks # <<>>
               /\ m.first_key = ks[1]
               /\ m.last_key = Last(ks)
               /\ KeyGeq(m.last_key, m.first_key)
               /\ i < Len(table.block_meta) =>
                      KeyLess(m.last_key, table.block_meta[i + 1].first_key)

\* a table of two blocks, the first one holding two entries
C16_Witness ==
    /\ HoldsEntries("build")
    /\ Len(table.block_meta) = 2
    /\ Len(StoredKeys(1)) = 2
    /\ Len(Entries) = 3

\* one step of sst_builder.add(key, value): the call returned, or it panicked
AddStep == tphase = "building" /\ (entries' # entries \/ tphase' = "failed")

\* C17: BlockBuilder.add on an empty builder returns true and stores the entry
\* whatever its size, so in SsTableBuilder.add the add re-issued on the fresh
\* builder after a flush succeeds: the entry that triggered the flush is the
\* first entry of the new block, it is not in the flushed block, and no
\* entry is dropped or stored twice.
C17_AddOnEmptyBuilderAlwaysStores ==
    [][AddStep =>
          LET before == SstBuilder
              after == SstBuilder'
              e == Last(Entries')
              bytes == EntryBytes(e.key, e.value)
              flushed == Len(after.meta) = Len(before.meta) + 1
          IN /\ BlockBuilder_is_empty(before.builder) =>
                    tphase' = "building" /\ after.builder.data = bytes /\ ~flushed
             /\ tphase' = "building" =>
                    IF flushed
                    THEN /\ after.builder.data = bytes
                         /\ after.builder.first_key = e.key
                         /\ after.data = before.data
                                \o Block_encode(BlockBuilder_build(before.builder))
                    ELSE /\ after.builder.data = before.builder.data \o bytes
                         /\ after.data = before.data
                         /\ after.meta = before.meta]_vars

\* after a flush the fresh block holds one entry that alone reaches the
\* target size, and the block flushed before it holds the earlier entry
C17_Witness ==
    /\ tphase = "building"
    /\ Len(Entries) = 2
    /\ Len(SstBuilder.meta) = 1
    /\ SstBuilder.builder.data = EntryBytes(Entries[2].key, Entries[2].value)
    /\ Len(SstBuilder.builder.data) >= SstBuilder.block_size

\* the entries added whose keys lie in the key range of block i (1-based)
EntriesOf(i) ==
    SelectSeq(Entries,
              LAMBDA e : /\ KeyGeq(e.key, table.block_meta[i].first_key)
                         /\ KeyGeq(table.block_meta[i].last_key, e.key))

\* the builder after adding the entries es to b, one by one
RECURSIVE AddAll(_, _)
AddAll(b, es) ==
    IF es = <<>> THEN b
    ELSE AddAll(BlockBuilder_add(b, Head(es).key, Head(es).value).b, Tail(es))

\* the length of the encoding of the block built from the entries es
EncodedLen(es) ==
    Len(Block_encode(BlockBuilder_build(AddAll(BlockBuilder_new(SstBuilder.block_size), es))))

\* C18: in every SsTable returned by SsTableBuilder.build,
\* block_meta[0].offset == 0, block_meta[i+1].offset - block_meta[i].offset is
\* the length of the encoding of block i, and
\* block_meta_offset - block_meta[last].offset is the length of the encoding
\* of the last block.
C18_BlockOffsetsAreContiguous ==
    table.origin = "build" =>
        LET n == Len(table.block_meta)
            end(i) == IF i = n THEN table.block_meta_offset
                      ELSE table.block_meta[i + 1].offset
        IN /\ n >= 1
           /\ table.block_meta[1].offset = 0
           /\ \A i \in 1..n : end(i) - table.block_meta[i].offset = EncodedLen(EntriesOf(i))

\* a table of two blocks of different encoded lengths
C18_Witness ==
    /\ table.origin = "build"
    /\ Len(table.block_meta) = 2
    /\ Len(EntriesOf(1)) = 2
    /\ Len(EntriesOf(2)) = 1
    /\ table.block_meta[2].offset = EncodedLen(EntriesOf(1))
    /\ EncodedLen(EntriesOf(1)) # EncodedLen(EntriesOf(2))

\* the keys added to the SsTableBuilder
AddedKeys == {Entries[j].key : j \in 1..Len(Entries)}

\* C19: after one or more SsTableBuilder.add calls with strictly ascending
\* keys the builder's first_key is the smallest key added and its last_key
\* the largest, across all block flushes; the SsTable returned by build has
\* first_key == block_meta[0].first_key and
\* last_key == block_meta[last].last_key.
C19_TableKeyBoundsAreMinAndMax ==
    (tphase \in {"building", "table"} /\ Len(Entries) >= 1) =>
        /\ SstBuilder.first_key = MinKey(AddedKeys)
        /\ SstBuilder.last_key = MaxKey(AddedKeys)
        /\ table.origin = "build" =>
              /\ table.first_key = table.block_meta[1].first_key
              /\ table.last_key = Last(table.block_meta).last_key

\* a table of three blocks has been built: two flushes lie between the
\* smallest and the largest key
C19_Witness ==
    /\ table.origin = "build"
    /\ Len(Entries) = 3
    /\ Len(table.block_meta) = 3
    /\ table.first_key = Entries[1].key
    /\ table.last_key = Entries[3].key

\* C23: once an SsTableIterator reports is_valid() == false, because next()
\* went past the last entry of the last block or because seek_to_key was
\* called with a key greater than every key of the table, every further
\* next() returns Ok and leaves the iterator invalid.
C23_InvalidStaysInvalid ==
    (table.origin = "build" /\ sst_op.op = "next" /\ sst_op.ended) =>
        /\ tphase # "failed"
        /\ ~sst_op.revived
        /\ ~SsTableIterator_is_valid(SstIter)

\* the block the builder built from the entries es
BuiltFrom(es) == BlockBuilder_build(AddAll(BlockBuilder_new(SstBuilder.block_size), es))

\* C24: SsTable.read_block(idx) returns an error, without reading the file,
\* when idx >= num_of_blocks; for idx in range it decodes exactly the bytes
\* [block_meta[idx].offset, block_meta[idx+1].offset), or
\* [block_meta[idx].offset, block_meta_offset) for the last block, and the
\* result equals the idx-th block the builder encoded.
C24_ReadBlockReturnsBuiltBlock ==
    (table.origin = "build" /\ read_op.status # "none") =>
        LET n == Len(table.block_meta)
            i == read_op.idx + 1
        IN IF read_op.idx >= n
           THEN read_op.status = "err" /\ read_op.range = <<>>
           ELSE /\ read_op.status = "ok"
                /\ read_op.range =
                       <<table.block_meta[i].offset,
                         IF i = n THEN table.block_meta_offset
                         ELSE table.block_meta[i + 1].offset>>
                /\ Unpack(read_op.block.data) = BuiltFrom(EntriesOf(i)).data
                /\ read_op.block.offsets = BuiltFrom(EntriesOf(i)).offsets

\* the first block of a table of two blocks has been read, and it holds two
\* entries
C24_Witness ==
    /\ table.origin = "build"
    /\ read_op.status = "ok"
    /\ read_op.idx = 0
    /\ Len(table.block_meta) = 2
    /\ Len(EntriesOf(1)) = 2
    /\ read_op.range = <<0, table.block_meta[2].offset>>

\* an index past the last block has been handed to read_block
C24_WitnessNoSuchBlock ==
    /\ table.origin = "build"
    /\ read_op.status = "err"
    /\ read_op.idx >= Len(table.block_meta)

\* C26: every data block recorded in the block-meta list of an SsTable
\* returned by SsTableBuilder.build holds at least one entry, for any number
\* of preceding add calls including none, so that create_and_seek_to_first on
\* a built table finds an entry header at offset 0 of block 0 (and does not
\* panic).
C26_EveryBuiltBlockHoldsAnEntry ==
    table.origin = "build" =>
        /\ \A i \in 1..Len(table.block_meta) :
              /\ Len(Block_decode(BlockBytes(i)).data) >= 2 * SIZEOF_U16
              /\ StoredKeys(i) # <<>>
        /\ (sst_op.op = "seek_to_first" /\ sst_op.nexts = 0) => tphase # "failed"

\* C27: every entry offset kept in a Block produced by BlockBuilder is the
\* exact byte position at which that entry starts in data, with no 16-bit
\* truncation or wrap-around, for key and value lengths up to 2^16 - 1 (here:
\* the Block the table builder's current BlockBuilder would build).
C27_OffsetsAreExactEntryStarts ==
    tphase = "building" =>
        LET b == BlockBuilder_build(SstBuilder.builder)
        IN Front(b.offsets) = EntryStarts(b.data, 0)

\* the iterator a thread running alone holds after its create call and k
\* calls of next(), over the same table without any other user
RECURSIVE AloneIter(_, _, _)
AloneIter(start, key, k) ==
    LET t == [table EXCEPT !.block_cache = NoCache]
    IN IF k = 0
       THEN IF start = "first"
            THEN SsTableIterator_create_and_seek_to_first(t, File)
            ELSE SsTableIterator_create_and_seek_to_key(t, File, key)
       ELSE LET prev == AloneIter(start, key, k - 1)
            IN IF prev.status # "ok" THEN prev ELSE SsTableIterator_next(prev, t, File)

SeenAsAlone(r) ==
    r.seen = [j \in 1..Len(r.seen) |-> Observed(AloneIter(r.start, r.target, j - 1))]

\* every field of the table but the contents of the cache it points to
TableFields(t) == [t EXCEPT !.block_cache = t.block_cache.some]

\* C25: no call of read_block_cached, find_block_idx, create/seek or next
\* changes a field of the shared SsTable or its file, and each of two
\* SsTableIterators over one SsTable, with or without a shared block cache,
\* sees under every interleaving of the two threads' calls the same sequence
\* of (key, value) pairs as when it runs alone.
C25_SharedTableReadersSeeSoloSequence ==
    /\ [](tphase = "shared" => \A i \in Threads : SeenAsAlone(readers[i]))
    /\ [][tphase = "shared" =>
             TableFields(table') = TableFields(table) /\ file' = file]_vars

\* both threads have crossed into a second block of a table with a cache, one
\* of them served by the cache, and they started differently
C25_Witness ==
    /\ tphase = "shared"
    /\ table.block_cache.some
    /\ Len(table.block_meta) >= 2
    /\ readers[1].start = "first" /\ readers[2].start = "key"
    /\ readers[1].nexts >= 2 /\ readers[2].nexts >= 1
    /\ readers[1].iter.blk_idx >= 1 /\ readers[2].iter.blk_idx >= 1
    /\ readers[1].hits >= 1 /\ readers[2].hits >= 1
    /\ SsTableIterator_is_valid(readers[1].iter)
    /\ SsTableIterator_is_valid(readers[2].iter)

---------------------------------------------------------------------------
(* Actions on a MergeIterator over input cursors with strictly ascending keys *)

\* the strictly ascending key sequences over MergeKeys
AscendingKeys ==
    {ks \in UNION {[1..n -> MergeKeys] : n \in 0..Cardinality(MergeKeys)} :
        \A i \in 1..(Len(ks) - 1) : KeyLess(ks[i], ks[i + 1])}

\* stream idx yields the keys ks, each with a value that names the stream
StreamEntries(idx, ks) == [j \in 1..Len(ks) |-> Entry(ks[j], <<idx>>)]

\* what the iterator exposes through key() and value() while it is valid
MergeShown(m) ==
    IF MergeIterator_is_valid(m)
    THEN <<Entry(MergeIterator_key(m), MergeIterator_value(m))>>
    ELSE <<>>

\* MergeIterator::create(inputs)
MergeCreate ==
    /\ mphase = "inputs"
    /\ mphase' = "created"
    /\ merge' = MergeIterator_create(inputs)
    /\ merge_op' = [op |-> "create", status |-> "ok",
                    out |-> MergeShown(merge'), errors |-> 0]
    /\ UNCHANGED <<inputs, envvars, metavars, svars, bvars, tvars>>

\* merge.next(), called while the iterator is valid or has no current at all;
\* in this call the next() of stream failing returns Err (-1: of none)
MergeNext(failing) ==
    /\ mphase = "created"
    /\ IF merge.current = <<>> THEN TRUE ELSE MergeIterator_is_valid(merge)
    /\ failing >= 0 => merge_op.errors < MaxErrors
    /\ LET r == MergeIterator_next(merge, failing)
       IN /\ mphase' = IF r.status = "panic" THEN "panic" ELSE "created"
          /\ merge' = r.m
          /\ merge_op' = [op |-> "next", status |-> r.status,
                          out |-> IF r.status = "ok"
                                  THEN merge_op.out \o MergeShown(r.m)
                                  ELSE merge_op.out,
                          errors |-> IF r.status = "err"
                                     THEN merge_op.errors + 1
                                     ELSE merge_op.errors]
    /\ UNCHANGED <<inputs, envvars, metavars, svars, bvars, tvars>>

InitMerge ==
    /\ overflow_checks = FALSE
    /\ dom = "small"
    /\ BlockOff
    /\ TableOff
    /\ MetaOff
    /\ SharedOff
    /\ mphase = "inputs"
    /\ \E n \in 0..MaxStreams :
         \E ks \in [1..n -> AscendingKeys] :
            inputs = [i \in 1..n |-> Cursor(StreamEntries(i - 1, ks[i]))]
    /\ merge = NoMerge
    /\ merge_op = NoMergeOp

NextMerge ==
    \/ MergeCreate
    \/ \E failing \in -1..(Len(inputs) - 1) : MergeNext(failing)

SpecMerge == InitMerge /\ [][NextMerge]_vars

\* next() may be called: the guard of MergeNext(-1), whose step always changes
\* merge or mphase, so CanNext is ENABLED <<MergeNext(-1)>>_vars
CanNext ==
    /\ mphase = "created"
    /\ IF merge.current = <<>> THEN TRUE ELSE MergeIterator_is_valid(merge)

\* the caller creates the iterator and goes on calling next() while it is
\* valid: weak fairness of create and of next(), the latter
\* (WF_vars(MergeNext(-1))) with its enabling condition written out
InitMergeLive == InitMerge /\ Len(inputs) <= MaxLiveStreams

SpecMergeLive ==
    /\ InitMergeLive /\ [][NextMerge]_vars
    /\ WF_vars(MergeCreate)
    /\ (<>[]~CanNext \/ []<><<MergeNext(-1)>>_vars)

---------------------------------------------------------------------------
(* Claims about MergeIterator (under SpecMerge) *)

\* the stream indexes whose input cursor holds key k
Holders(k) == {i \in 0..(Len(inputs) - 1) :
                 \E j \in 1..Len(inputs[i + 1].entries) : inputs[i + 1].entries[j].key = k}

\* the keys held by one input cursor or more
UnionKeys == {k \in MergeKeys : Holders(k) # {}}

\* the value stream idx holds for key k
ValueIn(idx, k) ==
    LET es == inputs[idx + 1].entries
    IN es[CHOOSE j \in 1..Len(es) : es[j].key = k].value

\* the merge was created and no input cursor has returned an error
MergeRunning == mphase = "created" /\ merge_op.errors = 0

\* C3: over input cursors that each yield strictly ascending keys, the keys
\* the MergeIterator exposes after create and after each successful next()
\* while valid are strictly ascending.
C3_ExposedKeysStrictlyAscending ==
    mphase \in {"created", "panic"} => Ascending(merge_op.out)

\* two streams or more have contributed to three exposed keys or more
C3_Witness ==
    /\ MergeRunning
    /\ Len(merge_op.out) >= 3
    /\ Cardinality({merge_op.out[i].value : i \in 1..Len(merge_op.out)}) >= 2

\* C4: whenever the MergeIterator is valid, value() is the value the
\* lowest-indexed input cursor holding key() has for that key.
C4_LowestIndexShadows ==
    (MergeRunning /\ MergeIterator_is_valid(merge)) =>
        LET k == MergeIterator_key(merge)
        IN /\ Holders(k) # {}
           /\ MergeIterator_value(merge) =
                ValueIn(CHOOSE i \in Holders(k) : \A o \in Holders(k) : i <= o, k)

\* after a next(), the exposed key is held by two streams or more, the lowest not stream 0
C4_Witness ==
    /\ MergeRunning
    /\ merge_op.op = "next"
    /\ MergeIterator_is_valid(merge)
    /\ Cardinality(Holders(MergeIterator_key(merge))) >= 2
    /\ 0 \notin Holders(MergeIterator_key(merge))

\* C5: iterating to exhaustion exposes every key held by an input cursor
\* exactly once: none is exposed twice, and none is left out once the
\* iterator is invalid.
C5_EveryKeyExactlyOnce ==
    MergeRunning =>
        /\ \A i, j \in 1..Len(merge_op.out) :
              merge_op.out[i].key = merge_op.out[j].key => i = j
        /\ {merge_op.out[i].key : i \in 1..Len(merge_op.out)} \subseteq UnionKeys
        /\ ~MergeIterator_is_valid(merge) =>
              {merge_op.out[i].key : i \in 1..Len(merge_op.out)} = UnionKeys

\* exhausted after exposing a key held by all of three streams, and others
C5_Witness ==
    /\ MergeRunning
    /\ merge_op.op = "next"
    /\ ~MergeIterator_is_valid(merge)
    /\ Len(merge_op.out) >= 2
    /\ \E k \in UnionKeys : Cardinality(Holders(k)) >= 3

\* w ranks after c in the order (key ascending, then stream index ascending)
RanksAfter(w, c) ==
    \/ KeyLess(Cursor_key(c.iter), Cursor_key(w.iter))
    \/ Cursor_key(c.iter) = Cursor_key(w.iter) /\ w.idx > c.idx

HeapIdxs(m) == {w.idx : w \in m.iters}

\* C21: if, during MergeIterator.next, advancing a heap-top cursor whose key
\* equals current's key returns an error, next returns that error, the
\* failing cursor has been removed from the heap and current has not been
\* advanced; an error returned by advancing current itself is returned by
\* next too.
C21_CursorErrorIsReturned ==
    [][\A failing \in 0..(MaxStreams - 1) :
          (/\ mphase = "created"
           /\ merge.current # <<>>
           /\ merge_op'.op = "next"
           /\ MergeNext(failing)) =>
              LET current == merge.current[1]
                  in_heap == \E w \in merge.iters :
                                 w.idx = failing /\ SameKey(w, current)
              IN /\ in_heap =>
                        /\ merge_op'.status = "err"
                        /\ failing \notin HeapIdxs(merge')
                        /\ merge'.current = merge.current
                 /\ failing = current.idx => merge_op'.status = "err"]_vars

\* next() has returned the error of a heap cursor that showed current's key
\* and had a further key to go to: the cursor is gone from the heap
C21_Witness ==
    /\ mphase = "created"
    /\ merge_op.status = "err"
    /\ MergeIterator_is_valid(merge)
    /\ \E i \in Holders(MergeIterator_key(merge)) :
          /\ i > merge.current[1].idx
          /\ i \notin HeapIdxs(merge)
          /\ \E j \in 1..Len(inputs[i + 1].entries) :
                 KeyLess(MergeIterator_key(merge), inputs[i + 1].entries[j].key)

\* the keys surfaced before the call that led to this state: merge_op.out
\* without the entry the iterator shows now
SurfacedBefore ==
    LET ks == [i \in 1..Len(merge_op.out) |-> merge_op.out[i].key]
    IN IF MergeIterator_is_valid(merge) THEN {ks[i] : i \in 1..(Len(ks) - 1)}
       ELSE {ks[i] : i \in 1..Len(ks)}

\* after create and after every successful next(): valid exactly when some
\* input cursor holds a key greater than every key surfaced so far; created
\* from no valid cursor: invalid, with empty key() and value()
ValidIffKeysRemain ==
    (MergeRunning /\ merge_op.status = "ok") =>
        /\ MergeIterator_is_valid(merge) <=>
              \E k \in UnionKeys : \A p \in SurfacedBefore : KeyLess(p, k)
        /\ UnionKeys = {} =>
              /\ ~MergeIterator_is_valid(merge)
              /\ MergeIterator_key(merge) = <<>>
              /\ MergeIterator_value(merge) = <<>>

\* C22: MergeIterator.is_valid() is false exactly when every input cursor is
\* exhausted: after create and after every successful next() it is true if
\* and only if some input cursor still holds a key greater than every key
\* surfaced so far; an iterator created from no valid cursor is invalid and
\* returns empty key() and value(); repeated next() over finite inputs
\* eventually makes the iterator invalid.
C22_ValidUntilInputsExhausted ==
    /\ []ValidIffKeysRemain
    /\ <>(mphase # "inputs" /\ ~MergeIterator_is_valid(merge))

\* three successful next() calls over two streams have surfaced three keys
\* and the fourth call has made the iterator invalid
C22_Witness ==
    /\ MergeRunning
    /\ merge_op.op = "next"
    /\ merge_op.status = "ok"
    /\ Len(inputs) >= 2
    /\ Len(merge_op.out) = 3
    /\ ~MergeIterator_is_valid(merge)
    /\ merge.current # <<>>

---------------------------------------------------------------------------
(* BlockMeta lists through encode_block_meta and decode_block_meta *)

\* offsets below and above 2^16; keys that are empty, short, and longer than
\* one length byte can count
MetaOffsets == {0, 70000}
MetaKeys == {<<>>, <<1, 2>>, [i \in 1..300 |-> 9]}
MetaRecords ==
    {BlockMeta(o, fk, lk) : o \in MetaOffsets, fk \in MetaKeys, lk \in MetaKeys}
MetaLists == UNION {[1..n -> MetaRecords] : n \in 0..MaxMetas}

\* BlockMeta::encode_block_meta(&meta_list, &mut buf) on an empty buf
MetaEncode ==
    /\ meta_phase = "list"
    /\ meta_buf' = BlockMeta_encode_block_meta(meta_list, <<>>)
    /\ meta_phase' = "encoded"
    /\ UNCHANGED <<meta_list, meta_decoded, envvars, bvars, tvars, mvars, svars>>

\* BlockMeta::decode_block_meta(&meta_buf[..])
MetaDecode ==
    /\ meta_phase = "encoded"
    /\ meta_decoded' = BlockMeta_decode_block_meta(meta_buf)
    /\ meta_phase' = "decoded"
    /\ UNCHANGED <<meta_list, meta_buf, envvars, bvars, tvars, mvars, svars>>

InitMeta ==
    /\ overflow_checks \in BOOLEAN
    /\ dom = "small"
    /\ meta_phase = "list"
    /\ meta_list \in MetaLists
    /\ meta_buf = <<>>
    /\ meta_decoded = NoMetaDecoded
    /\ SharedOff
    /\ BlockOff
    /\ TableOff
    /\ MergeOff

NextMeta ==
    \/ MetaEncode
    \/ MetaDecode

SpecMeta == InitMeta /\ [][NextMeta]_vars

---------------------------------------------------------------------------
(* Claims about encode_block_meta / decode_block_meta (under SpecMeta) *)

\* C14: for every list M of BlockMeta records whose offsets fit in 32 bits
\* and whose keys are shorter than 2^16 bytes, the empty list included,
\* decode_block_meta applied to the bytes encode_block_meta(M) wrote returns
\* a list equal to M.
C14_MetaDecodeEncodeIdentity ==
    meta_phase = "decoded" =>
        /\ ~meta_decoded.panic
        /\ meta_decoded.block_meta = meta_list

\* two records, one with an offset above 2^16 and keys of different lengths,
\* have gone through encode and decode
C14_Witness ==
    /\ meta_phase = "decoded"
    /\ Len(meta_list) = 2
    /\ meta_list[1].offset = 70000
    /\ Len(meta_list[1].first_key) = 300
    /\ meta_list[1].last_key = <<>>
    /\ Len(meta_buf) > 300

=============================================================================
